---- MODULE Spec2Model ----
(***************************************************************************)
(* Model of the Forge retrieval core (packages/ai-server/rag_service.py):  *)
(* the incremental indexer (load_and_index_directory and its helpers) and  *)
(* the search entry point with its hybrid ranker.                          *)
(*                                                                         *)
(* The vector store is a bag of chunks: Chroma gives every inserted chunk  *)
(* a fresh id, and the code only ever deletes "all ids whose source is     *)
(* ...", so a chunk is identified by (source, text, type) plus its copy    *)
(* number.                                                                 *)
(***************************************************************************)
EXTENDS Integers, Sequences, FiniteSets, TLC

(***************************************************************************)
(* Bounds                                                                  *)
(***************************************************************************)
\* largest number of chunks the store may hold (duplicates only build up
\* through swallowed backend errors, so the reindex guards cap them)
MaxIndex == 3

\* largest k a search asks for
MaxK == 3

\* most update threads of the watcher that exist at a time
MaxThreads == 2

\* most file events the observer delivers to the watcher
MaxEvents == 3

(***************************************************************************)
(* The vault: markdown files found by glob("**/*.md") under the root       *)
(***************************************************************************)
InvFile == "/vault/Inventory/nas.md"
PrjFile == "/vault/Projects/forge.md"

LogFile == "/vault/Logs/journal.md"

Files == {InvFile, LogFile, PrjFile}

\* the files that get written and deleted while the indexer is watched; the
\* others stay as they are
Edited == {InvFile, PrjFile}

\* glob returns the files in one fixed order
MdOrder == <<InvFile, LogFile, PrjFile>>

\* the vault directory of the configuration file, and the directories the
\* vault can be switched to
VaultRoot == "/vault"

Roots == {VaultRoot, "/vault/Inventory", "/vault/Projects"}

\* the file lies below the directory
Under(f, directory_path) ==
  \/ directory_path = VaultRoot
  \/ directory_path = "/vault/Inventory" /\ f = InvFile
  \/ directory_path = "/vault/Projects" /\ f = PrjFile

\* What a file can hold.  A document is given by what the loader and the
\* chunker make of it: its front-matter 'type' value and its chunk texts.
\*   plain   : no front-matter, one chunk
\*   project : "type: project", two chunks
\*   inttype : "type: 2024" (YAML integer, stored as is), one chunk
DocNames == {"plain", "project", "inttype"}

Absent == "absent"
\* present on disk, but YAMLFrontmatterLoader.load raises (undecodable
\* bytes, front-matter that is not a mapping)
Unreadable == "unreadable"

DiskStates == DocNames \cup {Absent, Unreadable}

NoType == "<no type key>"
IntType == "<int 2024>"

\* metadata['type'] as the loader stores it (rag_service.py 59-65)
DocType(d) ==
  CASE d = "plain" -> NoType
    [] d = "project" -> "project"
    [] d = "inttype" -> IntType

\* chunk texts produced by _smart_chunk_document for the document
DocTexts(d) ==
  CASE d = "plain" -> <<"a">>
    [] d = "project" -> <<"a", "b">>
    [] d = "inttype" -> <<"c">>

Chunk(f, d, i) == [source |-> f, text |-> DocTexts(d)[i], type |-> DocType(d)]

\* the chunks of file f holding document d, in order
SmartChunkDocument(f, d) == [i \in 1..Len(DocTexts(d)) |-> Chunk(f, d, i)]

ChunkUniverse ==
  UNION {{Chunk(f, d, i) : i \in 1..Len(DocTexts(d))} : f \in Files, d \in DocNames}

EmptyIndex == [c \in ChunkUniverse |-> 0]

RECURSIVE SumOver(_, _)
SumOver(S, g) ==
  IF S = {} THEN 0
  ELSE LET x == CHOOSE y \in S : TRUE IN g[x] + SumOver(S \ {x}, g)

\* collection.count()
Count(idx) == SumOver(ChunkUniverse, idx)

CountOf(idx, f) == SumOver({c \in ChunkUniverse : c.source = f}, idx)

Range(s) == {s[i] : i \in 1..Len(s)}

(***************************************************************************)
(* Injected failures of the external services                              *)
(***************************************************************************)
NoFile == "<none>"

\* one failure of the vector store or of the embedding service per call:
\*   clear  : clearing the collection raises; Chroma is re-opened
\*   reinit : clearing raises and re-opening Chroma raises too
\*   clean  : the store raises inside _clean_deleted_files
\*   remove : the store raises inside _remove_existing_file_chunks
\*   write  : the store raises inside add_documents
\*   embed  : the embedding call raises on the chunks of one file
\*   query  : similarity_search_with_score raises
Fault(kind, f) == [kind |-> kind, file |-> f]

NoFault == Fault("none", NoFile)

FullFaults ==
  {NoFault} \cup {Fault(k, NoFile) : k \in {"clear", "reinit", "write"}}
            \cup {Fault("embed", f) : f \in Files}

IncFaults ==
  {NoFault} \cup {Fault(k, NoFile) : k \in {"clean", "remove", "write"}}
            \cup {Fault("embed", f) : f \in Files}

(***************************************************************************)
(* Incremental indexer                                                     *)
(***************************************************************************)
\* (mutant) the first file that fails to load ends the scan with nothing
LoadDocumentsAborting(dsk) ==
  IF \E f \in Files : dsk[f] = Unreadable THEN {}
  ELSE {f \in Files : dsk[f] \in DocNames}

\* files whose load() returns a document (rag_service.py 243-249)
LoadDocuments(dsk) == {f \in Files : dsk[f] \in DocNames}

RECURSIVE ChunkAll(_, _, _)
\* text_chunks: the chunks of the loaded documents, in md_files order
ChunkAll(dsk, docs, i) ==
  IF i > Len(MdOrder) THEN <<>>
  ELSE (IF MdOrder[i] \in docs
          THEN SmartChunkDocument(MdOrder[i], dsk[MdOrder[i]])
          ELSE <<>>) \o ChunkAll(dsk, docs, i + 1)

\* full rebuild, clearing step: delete every id (an exception leaves the
\* collection as it was; the re-opened Chroma reads the same directory)
ClearExisting(idx, fails) == IF fails THEN idx ELSE EmptyIndex

\* (mutant) the cleaning is skipped when no markdown file is left
CleanDeletedFilesUnlessEmpty(idx, dsk, fails) ==
  IF fails \/ \A f \in Files : dsk[f] = Absent THEN idx
  ELSE [c \in ChunkUniverse |-> IF dsk[c.source] = Absent THEN 0 ELSE idx[c]]

\* delete the chunks whose source no longer exists on disk; any exception
\* is logged and swallowed
CleanDeletedFiles(idx, dsk, fails) ==
  IF fails THEN idx
  ELSE [c \in ChunkUniverse |-> IF dsk[c.source] = Absent THEN 0 ELSE idx[c]]

\* (mutant) the chunks of the reprocessed files are left in place
RemoveExistingFileChunksSkipped(idx, docs, fails) == idx

\* delete the chunks of the files being reprocessed; any exception is
\* logged and swallowed
RemoveExistingFileChunks(idx, docs, fails) ==
  IF fails THEN idx
  ELSE [c \in ChunkUniverse |-> IF c.source \in docs THEN 0 ELSE idx[c]]

\* vectorstore.add_documents: every chunk is stored under a fresh id
AddDocuments(idx, chunks) ==
  [c \in ChunkUniverse |->
     idx[c] + Cardinality({i \in 1..Len(chunks) : chunks[i] = c})]

\* the failure happens only where the failing call is made
AddFails(fault, docs) ==
  \/ fault.kind = "write"
  \/ fault.kind = "embed" /\ fault.file \in docs

\* load_and_index_directory(directory_path, incremental) as a function of
\* the store, the disk and the injected failure: the store it leaves, the
\* count it returns and the number of chunks it inserted
LoadAndIndexDirectory(idx, dsk, incremental, fault) ==
  LET cleaned == IF incremental
                   THEN CleanDeletedFiles(idx, dsk, fault.kind = "clean")
                   ELSE ClearExisting(idx, fault.kind \in {"clear", "reinit"})
      documents == LoadDocuments(dsk)
      removed == IF incremental
                   THEN RemoveExistingFileChunks(cleaned, documents, fault.kind = "remove")
                   ELSE cleaned
      text_chunks == ChunkAll(dsk, documents, 1)
      stored == AddDocuments(removed, text_chunks)
  IN  IF ~incremental /\ fault.kind = "reinit"
        THEN [index |-> cleaned, ret |-> 0, added |-> 0]
      ELSE IF documents = {}
        THEN [index |-> cleaned, ret |-> 0, added |-> 0]
      ELSE IF AddFails(fault, documents)
        THEN [index |-> removed, ret |-> 0, added |-> 0]
      ELSE [index |-> stored, ret |-> Len(text_chunks),
            added |-> Count(stored) - Count(removed)]

\* what glob(directory_path/**/*.md) and the loader see of the disk
GlobUnder(dsk, directory_path) ==
  [f \in Files |-> IF Under(f, directory_path) THEN dsk[f] ELSE Absent]

\* _clean_deleted_files(directory_path): current_files is collected from
\* directory_path and never used; a chunk goes when os.path.exists of its
\* source is false (297-307)
CleanUnder(idx, dsk, directory_path) == CleanDeletedFiles(idx, dsk, FALSE)

\* load_and_index_directory(directory_path, incremental=True) when no
\* service fails: the store it leaves and the count it returns
UpdateDirectoryUnder(idx, dsk, directory_path) ==
  LET cleaned == CleanUnder(idx, dsk, directory_path)
      seen == GlobUnder(dsk, directory_path)
      documents == LoadDocuments(seen)
      removed == RemoveExistingFileChunks(cleaned, documents, FALSE)
      text_chunks == ChunkAll(seen, documents, 1)
  IN  IF documents = {} THEN [index |-> cleaned, ret |-> 0]
      ELSE [index |-> AddDocuments(removed, text_chunks), ret |-> Len(text_chunks)]

\* a failure can be injected only into a call the run makes
FaultCanOccur(dsk, incremental, fault) ==
  /\ fault \in (IF incremental THEN IncFaults ELSE FullFaults)
  /\ fault.kind \in {"remove", "write"} => LoadDocuments(dsk) # {}
  /\ fault.kind = "embed" => fault.file \in LoadDocuments(dsk)

(***************************************************************************)
(* Strings.  TLC cannot look inside a string, so the substring tests of    *)
(* the ranker ("term in filename", "word in query_lower") are decided by   *)
(* the table of proper substrings among the words the model uses.          *)
(***************************************************************************)
ProperSubstrings == {<<"task", "tasks">>}

\* needle in hay
Sub(needle, hay) == needle = hay \/ <<needle, hay>> \in ProperSubstrings

\* words of at most two characters (dropped by "len(term.strip()) > 2")
ShortWords == {"my"}

\* the queries the model asks, as their whitespace-separated lower-case words
Queries ==
  {<<>>, <<"my", "nas">>, <<"recent", "forge">>, <<"project", "status">>,
   <<"open", "tasks">>}

\* any(word in query_lower for word in words): none of the words used here
\* spans a space
AnyIn(words, query) == \E w \in words, i \in 1..Len(query) : Sub(w, query[i])

\* query_terms (rag_service.py 442)
QueryTerms(query) == {query[i] : i \in 1..Len(query)} \ ShortWords

\* Path(source_path).stem.lower()
Stem(f) ==
  CASE f = InvFile -> "nas"
    [] f = LogFile -> "journal"
    [] OTHER -> "forge"

\* the "/Name/" folder markers that occur in the path, case-sensitively
PathMarks(f) ==
  CASE f = InvFile -> {"/Inventory/"}
    [] f = PrjFile -> {"/Projects/"}
    [] f = LogFile -> {"/Logs/"}
    [] OTHER -> {}

\* _detect_folder_type on the paths of the vault: "/vault/inventory/nas.md"
\* has no project or log pattern and hits '/inventory';
\* "/vault/logs/journal.md" hits '/log'; "/vault/projects/forge.md" hits
\* '/project' first
DetectFolderType(f) ==
  CASE f = InvFile -> "inventory"
    [] f = LogFile -> "logs"
    [] OTHER -> "projects"

\* _is_date_filename: none of "nas", "journal", "forge" is a date
IsDateFilename(f) == FALSE

\* the words of a chunk text; text "b" is a checklist with two boxes
TextWords(t) == IF t = "b" THEN {"open", "tasks"} ELSE {"notes"}

CheckboxCount(t) == IF t = "b" THEN 2 ELSE 0

\* page_content.lower() is "[stem] text"
InContent(w, c) == \E h \in {Stem(c.source)} \cup TextWords(c.text) : Sub(w, h)

(***************************************************************************)
(* Scores are exact multiples of 1/966000, so that every bonus of the      *)
(* ranker, the recency fractions /7, /23 and /60 included, is an integer.  *)
(***************************************************************************)
Milli == 7 * 23 * 6

Unit == 1000 * Milli

Max(a, b) == IF a >= b THEN a ELSE b

Min(a, b) == IF a <= b THEN a ELSE b

\* cosine distances, in tenths (0.4 and 1.6)
Dists == {4, 16}

\* age of a file's modification time in days
Ages == {1, 40}

\* max(0.0, 1.0 - (score / 2.0))
SemanticSimilarity(d) == Max(0, Unit - (d * Unit) \div 20)

TemporalWords == {"when", "last", "recent", "today", "yesterday", "week"}

ProjectWords == {"project", "working", "progress", "developing"}

TypeWords == {"type:", "project", "service", "hardware", "research"}

TaskWords == {"task", "tasks", "todo", "open", "pending", "checkbox"}

HardwareWords == {"hardware", "device", "computer", "server", "workstation"}

ServiceWords == {"service", "server", "application", "running"}

ProjectContentWords == {"project", "development", "implementation"}

IsTemporalQuery(q) == AnyIn(TemporalWords, q)

IsProjectQuery(q) == AnyIn(ProjectWords, q)

\* keyword_score (464-477)
KeywordScore(q, c) ==
  (IF \E t \in QueryTerms(q) : Sub(t, Stem(c.source)) THEN 500 * Milli ELSE 0)
  + 100 * Milli * Cardinality({t \in QueryTerms(q) : InContent(t, c)})

\* path_score (480-497)
PathScore(q, c, boost_inventory) ==
  LET folder_type == DetectFolderType(c.source) IN
  (IF IsProjectQuery(q)
     THEN (IF folder_type = "projects" THEN 300 * Milli
           ELSE IF folder_type = "logs" \/ \E w \in ProjectContentWords : InContent(w, c)
             THEN 150 * Milli ELSE 0)
     ELSE 0)
  + (IF IsTemporalQuery(q) /\ folder_type = "logs" THEN 400 * Milli ELSE 0)
  + (IF boost_inventory /\ folder_type \in {"inventory", "hardware", "services"}
       THEN 200 * Milli ELSE 0)

\* metadata.get('type', '').lower() raises when the stored value is not a
\* string (502)
TypeRaises(c) == c.type = IntType

\* frontmatter_score (500-588) for documents whose front-matter has at most
\* a 'type' key: the 'tags' and 'status' blocks are guarded by the key being
\* present and add nothing
FrontmatterScore(q, c) ==
  LET doc_type == IF c.type = NoType THEN "" ELSE c.type IN
  (IF AnyIn(TypeWords, q) /\ c.type # NoType
     THEN 300 * Milli * Cardinality({t \in QueryTerms(q) : Sub(t, doc_type)})
     ELSE 0)
  + (IF IsProjectQuery(q)
       THEN (IF doc_type = "project" THEN 300 * Milli
             ELSE IF doc_type \in {"research", "log"}
                     /\ \E w \in ProjectContentWords : InContent(w, c)
               THEN 100 * Milli ELSE 0)
       ELSE 0)
  + (IF AnyIn(HardwareWords, q) /\ doc_type = "hardware" THEN 300 * Milli ELSE 0)
  + (IF AnyIn(ServiceWords, q) /\ doc_type = "service" THEN 300 * Milli ELSE 0)
  + (IF AnyIn(TaskWords, q)
       THEN (IF CheckboxCount(c.text) > 0
               THEN 500 * Milli + CheckboxCount(c.text) * 100 * Milli ELSE 0)
            + (IF doc_type = "project" THEN 200 * Milli ELSE 0)
       ELSE 0)

\* the bonus for a file modified days_old days ago (597-612)
RecencyBonus(temporal, days_old) ==
  IF temporal
    THEN (IF days_old <= 7 THEN (300 * Milli * (7 - days_old)) \div 7
          ELSE IF days_old <= 30 THEN (100 * Milli * (30 - days_old)) \div 23
          ELSE 0)
    ELSE (IF days_old <= 7 THEN (200 * Milli * (7 - days_old)) \div 7
          ELSE IF days_old <= 30 THEN (100 * Milli * (30 - days_old)) \div 23
          ELSE IF days_old <= 90 THEN (50 * Milli * (90 - days_old)) \div 60
          ELSE 0)

\* recency_score (590-632): nothing for a file that is not on disk; an
\* exception of getmtime is caught here and leaves the score at 0.0.  The
\* date-named-file bonus needs a date filename, which the vault has none of.
RecencyScore(q, c, dsk, age, mtimeRaises) ==
  IF dsk[c.source] = Absent \/ mtimeRaises THEN 0
  ELSE RecencyBonus(IsTemporalQuery(q), age[c.source])

\* final_similarity (635)
FinalSimilarity(q, c, boost_inventory, d, dsk, age, mtimeRaises) ==
  SemanticSimilarity(d) + KeywordScore(q, c) + PathScore(q, c, boost_inventory)
  + RecencyScore(q, c, dsk, age, mtimeRaises) + FrontmatterScore(q, c)

(***************************************************************************)
(* Lists                                                                   *)
(***************************************************************************)
\* s[:n] for n >= 0
Take(s, n) == SubSeq(s, 1, Min(Len(s), n))

RECURSIVE InsertDesc(_, _)
\* x goes behind every element whose key is at least its own
InsertDesc(s, x) ==
  IF s = <<>> THEN <<x>>
  ELSE IF Head(s).key >= x.key THEN <<Head(s)>> \o InsertDesc(Tail(s), x)
  ELSE <<x>> \o s

RECURSIVE SortDesc(_)
\* list.sort(key=lambda x: x[key], reverse=True): stable, elements with equal
\* keys keep their order
SortDesc(s) ==
  IF s = <<>> THEN <<>>
  ELSE InsertDesc(SortDesc(SubSeq(s, 1, Len(s) - 1)), s[Len(s)])

RECURSIVE SetToSeq(_)
SetToSeq(S) ==
  IF S = {} THEN <<>>
  ELSE LET x == CHOOSE y \in S : TRUE IN <<x>> \o SetToSeq(S \ {x})

\* [F(x) for x in s]
Map(s, F(_)) == [i \in 1..Len(s) |-> F(s[i])]

(***************************************************************************)
(* Candidate retrieval                                                     *)
(***************************************************************************)
\* a stored chunk: the chunk and which copy of it
Entry(c, n) == [chunk |-> c, copy |-> n]

Entries(idx) == UNION {{Entry(c, n) : n \in 1..idx[c]} : c \in ChunkUniverse}

\* the embedded text: "[stem] text" of the source
ContentKey(c) == <<c.source, c.text>>

ContentKeys(idx) == {ContentKey(c) : c \in {x \in ChunkUniverse : idx[x] > 0}}

\* similarity_search_with_score(query, k=n): the n nearest stored chunks as
\* (doc, score) pairs, nearest first; dist gives the cosine distance of each
\* embedded text to the query (equal texts have equal embeddings)
SimilaritySearchWithScore(idx, dist, n) ==
  LET pair(e) == [doc |-> e, score |-> dist[ContentKey(e.chunk)],
                  key |-> 0 - dist[ContentKey(e.chunk)]]
  IN  Take(SortDesc(Map(SetToSeq(Entries(idx)), pair)), n)

(***************************************************************************)
(* search and _hybrid_search                                               *)
(***************************************************************************)
\* doc_info: the stored chunk and its 'similarity' (the sort key)
DocInfo(e, similarity) == [doc |-> e, key |-> similarity]

HasMark(d, marks) == PathMarks(d.doc.chunk.source) \cap marks # {}

\* (mutant) the fill-up takes from all documents instead of the rest
MixFromAll(docs, marks, n, k) ==
  LET first == SelectSeq(docs, LAMBDA d : HasMark(d, marks))
  IN  Take(Take(first, n) \o Take(docs, k - Len(Take(first, n))), k)

\* final_docs = first[:n] + rest[:k - len(first[:n])]; final_docs[:k]
Mix(docs, marks, n, k) ==
  LET first == SelectSeq(docs, LAMBDA d : HasMark(d, marks))
      rest == SelectSeq(docs, LAMBDA d : ~HasMark(d, marks))
  IN  Take(Take(first, n) \o Take(rest, k - Len(Take(first, n))), k)

\* category-based selection of the sorted documents (660-685)
CategoryMix(docs, q, k, boost_inventory) ==
  IF boost_inventory THEN Mix(docs, {"/Inventory/", "/Hardware/"}, k \div 2, k)
  ELSE IF IsTemporalQuery(q) THEN Mix(docs, {"/Logs/"}, k \div 2, k)
  ELSE IF IsProjectQuery(q) THEN Mix(docs, {"/Projects/", "/Logs/"}, (7 * k) \div 10, k)
  ELSE Take(docs, k)

\* what a try block hands on: the list, or the exception
Returned(list) == [raised |-> FALSE, results |-> list]

Raised == [raised |-> TRUE, results |-> <<>>]

\* (mutant) the exception is passed on
ExceptReraise(outcome) == outcome

\* "except Exception as e: logger.error(...); return []" (690-692, 778-780)
ExceptReturnEmpty(outcome) == IF outcome.raised THEN Returned(<<>>) ELSE outcome

\* the scoring loop of _hybrid_search (458-655) followed by the sort (658)
ScoreAndSort(semantic_results, dsk, q, boost_inventory, age, fault) ==
  LET info(r) == DocInfo(r.doc,
                   FinalSimilarity(q, r.doc.chunk, boost_inventory, r.score, dsk, age,
                                   fault.kind = "mtime" /\ fault.file = r.doc.chunk.source))
  IN  SortDesc(Map(semantic_results, info))

\* body of _hybrid_search (435-688)
HybridBody(idx, dsk, q, k, boost_inventory, dist, age, fault) ==
  LET semantic_results == SimilaritySearchWithScore(idx, dist, k * 10) IN
  IF fault.kind = "query" THEN Raised
  ELSE IF \E i \in 1..Len(semantic_results) : TypeRaises(semantic_results[i].doc.chunk)
    THEN Raised
  ELSE Returned(CategoryMix(
         ScoreAndSort(semantic_results, dsk, q, boost_inventory, age, fault),
         q, k, boost_inventory))

HybridSearch(idx, dsk, q, k, boost_inventory, dist, age, fault) ==
  ExceptReturnEmpty(HybridBody(idx, dsk, q, k, boost_inventory, dist, age, fault))

\* filename boost of the non-hybrid path (743-762); source_path is still the
\* variable of the loop over the results (713-735), i.e. the path of the
\* last result retrieved
FilenameMatchScore(q, f, loop_source) ==
  LET hits == Cardinality({i \in 1..Len(q) :
                 q[i] \notin ShortWords /\ Sub(q[i], Stem(f))})
  IN  400 * Milli * hits
      + (IF "/Projects/" \in PathMarks(loop_source) /\ hits > 0 THEN 300 * Milli ELSE 0)

\* the part of the filename boost of f that is not 0.4 per matching term:
\* the extra boost for project documents (755-757)
ProjectBoost(q, f, loop_source) ==
  FilenameMatchScore(q, f, loop_source)
    - 400 * Milli * Cardinality({i \in 1..Len(q) :
                       q[i] \notin ShortWords /\ Sub(q[i], Stem(f))})

\* body of search with hybrid=False (704-776)
PlainBody(idx, q, k, boost_inventory, dist, fault) ==
  LET results == SimilaritySearchWithScore(idx, dist, IF boost_inventory THEN k * 3 ELSE k)
      loop_source == results[Len(results)].doc.chunk.source
      info(r) == [doc |-> r.doc,
                  base |-> SemanticSimilarity(r.score),
                  boost |-> FilenameMatchScore(q, r.doc.chunk.source, loop_source)]
      isInv(d) == boost_inventory /\ HasMark(d, {"/Inventory/", "/Hardware/"})
      infos == Map(results, info)
      listed == SelectSeq(infos, isInv) \o SelectSeq(infos, LAMBDA d : ~isInv(d))
      final(d) == DocInfo(d.doc, d.base + d.boost)
      keyword_boosted == Map(SelectSeq(listed, LAMBDA d : d.boost > 0), final)
      remaining_docs == Map(SelectSeq(listed, LAMBDA d : d.boost = 0), final)
  IN  IF fault.kind = "query" THEN Raised
      ELSE Returned(Take(SortDesc(keyword_boosted \o remaining_docs), k))

\* ForgeRAG.search (694-780)
Search(idx, dsk, q, k, boost_inventory, hybrid, dist, age, fault) ==
  ExceptReturnEmpty(
    IF hybrid THEN HybridSearch(idx, dsk, q, k, boost_inventory, dist, age, fault)
    ELSE PlainBody(idx, q, k, boost_inventory, dist, fault))

(***************************************************************************)
(* State                                                                   *)
(***************************************************************************)
VARIABLES
  disk,    \* what each file of the vault holds
  index,   \* the vector store: number of stored copies of each chunk
  last,    \* the last operation, its inputs and what it returned
  gone,    \* files with chunks that a reindex found deleted, still absent
  run,     \* the watcher thread's incremental update, when run step by step
  calc,    \* a call of one of the pure functions: its arguments, its result
  req,     \* the incremental update of a request to /update-index, likewise
  watcher, \* the VaultWatcher: its queue, its clock and its update threads
  vault    \* main.py's vault_path and vault_metadata_cache

vars == <<disk, index, last, gone, run, calc, req, watcher, vault>>

\* no call made
NoCalc == [fn |-> "none"]

\* the watcher before its first event: VaultWatcher.__init__ (main.py 67-73)
NoWatcher ==
  [update_queue |-> {}, elapsed |-> 0, update_thread |-> 0,
   threads |-> [t \in 1..MaxThreads |-> "free"], unserved |-> FALSE,
   events |-> 0]

\* vault_metadata_cache["data"] when nothing is cached
NoMetadata == [root |-> NoFile, md_files |-> {}]

\* the vault of the configuration file, and the empty cache (main.py 298):
\* cached says that last_updated is set, age is the number of minutes since
\* then
NoVault ==
  [vault_path |-> VaultRoot, data |-> NoMetadata, cached |-> FALSE, age |-> 0]

\* no update in progress
Idle == [pc |-> "idle", documents |-> <<>>, fault |-> NoFault, had |-> {}]

NoLast ==
  [op |-> "init", ret |-> 0, added |-> 0, fault |-> NoFault,
   rep |-> FALSE, prevRet |-> 0, prevSize |-> 0,
   q |-> <<>>, k |-> 0, boost |-> FALSE, hybrid |-> FALSE,
   cands |-> {}, results |-> <<>>, raised |-> {}, escaped |-> FALSE,
   extra |-> {}]

Init ==
  /\ disk = [f \in Files |-> Absent]
  /\ index = EmptyIndex
  /\ last = NoLast
  /\ gone = {}
  /\ run = Idle
  /\ req = Idle
  /\ watcher = NoWatcher
  /\ vault = NoVault
  /\ calc = NoCalc

\* the user (or an editor) writes, breaks or deletes a file
WriteFile(f, d) ==
  /\ d \in DocNames \cup {Unreadable}
  /\ disk[f] # d
  /\ disk' = [disk EXCEPT ![f] = d]
  /\ gone' = gone \ {f}
  /\ last' = [NoLast EXCEPT !.op = "edit"]
  /\ UNCHANGED <<index, run, calc, req, watcher, vault>>

DeleteFile(f) ==
  /\ disk[f] # Absent
  /\ disk' = [disk EXCEPT ![f] = Absent]
  /\ last' = [NoLast EXCEPT !.op = "edit"]
  /\ UNCHANGED <<index, gone, run, calc, req, watcher, vault>>

Reindex(incremental, fault) ==
  LET r == LoadAndIndexDirectory(index, disk, incremental, fault)
      again == incremental /\ last.op = "inc" /\ last.fault = NoFault
  IN  /\ FaultCanOccur(disk, incremental, fault)
      /\ Count(r.index) <= MaxIndex
      /\ index' = r.index
      /\ last' = [NoLast EXCEPT
                    !.op = IF incremental THEN "inc" ELSE "full",
                    !.ret = r.ret, !.added = r.added, !.fault = fault,
                    !.rep = again,
                    !.prevRet = IF again THEN last.ret ELSE 0,
                    !.prevSize = IF again THEN Count(index) ELSE 0]
      /\ gone' = IF incremental /\ fault.kind # "clean"
                   THEN {f \in Files : disk[f] = Absent /\ (f \in gone \/ CountOf(index, f) > 0)}
                   ELSE gone
      /\ UNCHANGED <<disk, run, calc, req, watcher, vault>>

SearchFaults ==
  {NoFault, Fault("query", NoFile)} \cup {Fault("mtime", f) : f \in Files}

\* the exceptions raised during a search call: by the retrieval, by the
\* scoring of a candidate outside the recency block (which ends the loop),
\* inside the recency block
ExceptionsRaised(cands, dsk, hybrid, fault) ==
  LET typeAt == {i \in 1..Len(cands) : TypeRaises(cands[i].doc.chunk)}
      reached(i) == \A j \in 1..i : j \notin typeAt
  IN  IF fault.kind = "query" THEN {"query"}
      ELSE IF ~hybrid THEN {}
      ELSE (IF typeAt # {} THEN {"score"} ELSE {})
           \cup (IF \E i \in 1..Len(cands) :
                       /\ fault.kind = "mtime" /\ fault.file = cands[i].doc.chunk.source
                       /\ dsk[fault.file] # Absent /\ reached(i)
                   THEN {"recency"} ELSE {})

Docs(s) == {s[i].doc : i \in 1..Len(s)}

\* a call of search(query, k, boost_inventory, hybrid); dist, age and fault
\* are what the embedding, the file system and the services answer
SearchCall(q, k, boost_inventory, hybrid, dist, age, fault) ==
  \E cands \in {IF fault.kind = "query" THEN <<>>
               ELSE SimilaritySearchWithScore(index, dist,
                      IF hybrid THEN k * 10 ELSE IF boost_inventory THEN k * 3 ELSE k)},
     r \in {Search(index, disk, q, k, boost_inventory, hybrid, dist, age, fault)} :
    \E raised \in {ExceptionsRaised(cands, disk, hybrid, fault)} :
      /\ fault.kind = "mtime" => "recency" \in raised
      /\ last' = [NoLast EXCEPT
                    !.op = "search", !.q = q, !.k = k, !.boost = boost_inventory,
                    !.hybrid = hybrid, !.cands = Docs(cands),
                    !.results = Map(r.results, LAMBDA d : d.doc),
                    !.raised = raised, !.escaped = r.raised,
                    \* the returned results of search(hybrid=False) that
                    \* were given the extra project boost
                    !.extra = IF hybrid \/ cands = <<>> THEN {}
                              ELSE {d.doc : d \in {x \in Range(r.results) :
                                      ProjectBoost(q, x.doc.chunk.source,
                                        cands[Len(cands)].doc.chunk.source) > 0}}]
      /\ UNCHANGED <<disk, index, gone, run, calc, req, watcher, vault>>

\* searches with inputs drawn from the given sets
SearchWith(Ks, DistSet, AgeSet, FaultSet) ==
  \E q \in Queries, k \in Ks, boost_inventory \in BOOLEAN, hybrid \in BOOLEAN,
     dist \in [ContentKeys(index) -> DistSet], fault \in FaultSet :
    \* only the hybrid ranker looks at modification times, and only at
    \* those of the files that have chunks in the store
    \E age \in [{f \in Files : disk[f] # Absent /\ CountOf(index, f) > 0} ->
                  IF hybrid THEN AgeSet ELSE {CHOOSE a \in AgeSet : TRUE}] :
       /\ fault.kind = "mtime" => fault.file \in DOMAIN age /\ hybrid /\ k > 0
       /\ SearchCall(q, k, boost_inventory, hybrid, dist, age, fault)

\* search_documents(query, limit): rag.search(query, k=limit) with the default
\* boost_inventory=True, hybrid=True (827-830)
SearchDocuments(Qs, Limits) ==
  \E q \in Qs, limit \in Limits,
     dist \in [ContentKeys(index) -> {4}],
     age \in [{f \in Files : disk[f] # Absent /\ CountOf(index, f) > 0} -> {1}] :
       SearchCall(q, limit, TRUE, TRUE, dist, age, NoFault)

\* /rebuild-index
RebuildIndex == \E fault \in FullFaults : Reindex(FALSE, fault)

\* /update-index and the watcher's update
UpdateDirectoryIncremental == \E fault \in IncFaults : Reindex(TRUE, fault)

Next ==
  \/ \E f \in Edited, d \in DocNames \cup {Unreadable} : WriteFile(f, d)
  \/ \E f \in Edited : DeleteFile(f)
  \/ RebuildIndex
  \/ UpdateDirectoryIncremental
  \/ SearchDocuments(Queries, 1..MaxK - 1)

Spec == Init /\ [][Next]_vars

(***************************************************************************)
(* The watcher thread (VaultWatcher._update_search_index) runs             *)
(* update_directory_incremental while request threads search and the user  *)
(* edits files; nothing in the code locks the store.  Each call of the      *)
(* store is one step.                                                      *)
(***************************************************************************)
\* the failures injected into the step-by-step update
ConcFaults == {NoFault, Fault("remove", NoFile), Fault("write", NoFile)}

\* the threads that run update_directory_incremental: the watcher's update
\* thread, and the event loop serving /update-index
Updaters == {"watcher", "request"}

\* the update of the thread
Update(self) == IF self = "watcher" THEN run ELSE req

SetUpdate(self, u) ==
  IF self = "watcher" THEN run' = u /\ UNCHANGED req
  ELSE req' = u /\ UNCHANGED run

\* _clean_deleted_files (233)
IncClean(self, Faults) ==
  \E fault \in Faults :
    /\ Update(self).pc = "idle"
    /\ SetUpdate(self, [Idle EXCEPT !.pc = "cleaned", !.fault = fault])
    /\ index' = CleanDeletedFiles(index, disk, fault.kind = "clean")
    /\ gone' = IF fault.kind # "clean"
                 THEN {f \in Files : disk[f] = Absent /\ (f \in gone \/ CountOf(index, f) > 0)}
                 ELSE gone
    /\ UNCHANGED <<disk, last, calc, watcher, vault>>

\* what the finished update returned
IncReturn(self, ret, added) ==
  last' = [NoLast EXCEPT !.op = "inc", !.ret = ret, !.added = added,
                         !.fault = Update(self).fault]

\* glob and load the files (240-253); nothing loaded: return 0
IncLoad(self) ==
  /\ Update(self).pc = "cleaned"
  /\ FaultCanOccur(disk, TRUE, Update(self).fault)
  /\ IF LoadDocuments(disk) = {}
       THEN SetUpdate(self, Idle) /\ IncReturn(self, 0, 0)
       ELSE /\ SetUpdate(self, [Update(self) EXCEPT !.pc = "loaded",
                         !.documents = [f \in LoadDocuments(disk) |-> disk[f]]])
            /\ UNCHANGED last
  /\ UNCHANGED <<disk, index, gone, calc, watcher, vault>>

\* _remove_existing_file_chunks(documents) (256-257)
IncRemove(self) ==
  /\ Update(self).pc = "loaded"
  /\ index' = RemoveExistingFileChunks(index, DOMAIN Update(self).documents,
                                       Update(self).fault.kind = "remove")
  /\ SetUpdate(self, [Update(self) EXCEPT !.pc = "removed",
               !.had = {f \in DOMAIN Update(self).documents : CountOf(index, f) > 0}])
  /\ UNCHANGED <<disk, last, gone, calc, watcher, vault>>

\* chunk, embed and add_documents (259-279), or the error path (281-283)
IncAdd(self) ==
  LET documents == DOMAIN Update(self).documents
      text_chunks == ChunkAll(Update(self).documents, documents, 1)
      stored == AddDocuments(index, text_chunks)
  IN  /\ Update(self).pc = "removed"
      /\ IF AddFails(Update(self).fault, documents)
           THEN UNCHANGED index /\ IncReturn(self, 0, 0)
           ELSE /\ Count(stored) <= MaxIndex
                /\ index' = stored
                /\ IncReturn(self, Len(text_chunks), Count(stored) - Count(index))
      /\ SetUpdate(self, Idle)
      /\ UNCHANGED <<disk, gone, calc, watcher, vault>>

NextConc ==
  \/ \E f \in Edited, d \in DocNames \cup {Unreadable} : WriteFile(f, d)
  \/ \E f \in Edited : DeleteFile(f)
  \/ IncClean("watcher", ConcFaults)
  \/ IncLoad("watcher")
  \/ IncRemove("watcher")
  \/ IncAdd("watcher")
  \/ SearchDocuments({<<"my", "nas">>}, {MaxK - 1})

SpecConc == Init /\ [][NextConc]_vars

\* C5 (as claimed): no search runs on a store from which the update in
\* progress has deleted the chunks of an indexed file that is still on disk
\* and not yet inserted its new ones
Claim_C5 ==
  ~(/\ last.op = "search"
    /\ run.pc = "removed"
    /\ \E f \in run.had : disk[f] # Absent /\ CountOf(index, f) = 0)

(***************************************************************************)
(* Two incremental updates of an unchanged vault at once: the watcher's    *)
(* thread and a request to /update-index.  The services answer; the files  *)
(* were written before the updates start.                                  *)
(***************************************************************************)
InitWriters ==
  /\ \E written \in [Edited -> DocNames \cup {Absent}] :
       disk = [f \in Files |-> IF f \in Edited THEN written[f] ELSE Absent]
  /\ index = EmptyIndex
  /\ last = NoLast
  /\ gone = {}
  /\ run = Idle
  /\ req = Idle
  /\ watcher = NoWatcher
  /\ vault = NoVault
  /\ calc = NoCalc

NextWriters ==
  \E self \in Updaters :
    \/ IncClean(self, {NoFault})
    \/ IncLoad(self)
    \/ IncRemove(self)
    \/ IncAdd(self)

SpecWriters == InitWriters /\ [][NextWriters]_vars

\* the update has deleted the old chunks and not yet inserted the new ones
InDeleteThenInsert(u) == u.pc = "removed"

\* C20 (as claimed): two updates are never both between their delete and
\* their insert, and when the updates have finished every chunk of every
\* file is stored exactly once
Claim_C20 ==
  /\ ~(InDeleteThenInsert(run) /\ InDeleteThenInsert(req))
  /\ (last.op = "inc" /\ run.pc = "idle" /\ req.pc = "idle") =>
        index = AddDocuments(EmptyIndex, ChunkAll(disk, {f \in Files : disk[f] \in DocNames}, 1))

(***************************************************************************)
(* ForgeRAG.search on its own: one call on a store and a disk drawn from   *)
(* the states the indexer can leave, with every input drawn from its       *)
(* bounded set                                                             *)
(***************************************************************************)
\* stores the indexer can leave: per file, whole documents (possibly stale
\* or duplicated after a swallowed delete error)
StoreOf(copies) ==
  [c \in ChunkUniverse |->
     SumOver({d \in DocNames : \E i \in 1..Len(DocTexts(d)) : Chunk(c.source, d, i) = c},
             copies[c.source])]

InitSearch ==
  /\ \E present \in [Edited -> {Absent, "plain"}] :
       disk = [f \in Files |-> IF f \in Edited THEN present[f] ELSE "plain"]
  /\ \E copies \in [Edited -> [DocNames -> 0..MaxIndex]], n \in 0..1 :
       /\ index = StoreOf([f \in Files |->
                             IF f \in Edited THEN copies[f]
                             ELSE [d \in DocNames |-> IF d = "plain" THEN n ELSE 0]])
       /\ Count(index) <= MaxIndex
  /\ last = NoLast
  /\ gone = {}
  /\ run = Idle
  /\ req = Idle
  /\ watcher = NoWatcher
  /\ vault = NoVault
  /\ calc = NoCalc

SearchOnce ==
  /\ last.op = "init"
  /\ SearchWith(0..MaxK, Dists, Ages, SearchFaults)

SpecSearch == InitSearch /\ [][SearchOnce]_vars

(***************************************************************************)
(* The recency bonus of _hybrid_search on its own: one query kind and the  *)
(* modification-time ages of two files                                     *)
(***************************************************************************)
\* oldest age in days; the last breakpoint of the bonus is 90
MaxAge == 92

\* the state in which nothing but calc is in use
Quiet ==
  /\ disk = [f \in Files |-> Absent]
  /\ index = EmptyIndex
  /\ last = NoLast
  /\ gone = {}
  /\ run = Idle
  /\ req = Idle
  /\ watcher = NoWatcher
  /\ vault = NoVault

InitRecency ==
  /\ Quiet
  /\ \E temporal \in BOOLEAN, newer \in 0..MaxAge, older \in 0..MaxAge :
       /\ newer <= older
       /\ calc = [fn |-> "recency_args", temporal |-> temporal,
                  newer |-> newer, older |-> older]

\* the recency block (597-612) run for both files
ScoreRecency ==
  /\ calc.fn = "recency_args"
  /\ calc' = [fn |-> "recency", temporal |-> calc.temporal,
              newer |-> calc.newer, older |-> calc.older,
              newerScore |-> RecencyBonus(calc.temporal, calc.newer),
              olderScore |-> RecencyBonus(calc.temporal, calc.older)]
  /\ UNCHANGED <<disk, index, last, gone, run, req, watcher, vault>>

SpecRecency == InitRecency /\ [][ScoreRecency]_vars

\* C12 (as claimed): of two files that differ only in the age of their
\* modification time, the newer one never gets the smaller recency score
Claim_C12 ==
  calc.fn = "recency" => calc.newerScore >= calc.olderScore

(***************************************************************************)
(* The query classifier (main.py, get_context_strategy).  A query is given *)
(* by the keywords of the pattern lists that occur in its lower-cased      *)
(* text, which is all the classifier looks at.                             *)
(***************************************************************************)
\* most keywords a query contains
MaxHits == 3

\* the keys of the patterns dict, in insertion order (which is the order a
\* dict is iterated in)
CategoryOrder == <<"temporal", "structural", "project", "specific">>

Categories == Range(CategoryOrder)

Patterns ==
  [c \in Categories |->
     CASE c = "temporal" ->
            {"when", "last", "recent", "today", "yesterday", "week", "ago", "since",
             "what did i do", "what happened", "january", "february", "march",
             "april", "may", "june", "july", "august", "september", "october",
             "november", "december", "2024", "2025"}
       [] c = "structural" ->
            {"vault", "files", "structure", "what do i have", "how many", "overview",
             "inventory", "hardware", "all my", "list all", "what are all"}
       [] c = "project" ->
            {"project", "working on", "progress", "status", "developing",
             "active project"}
       [] c = "specific" ->
            {"how to", "what is", "explain", "define", "meaning"}]

Keywords == UNION {Patterns[c] : c \in Categories}

\* a text that contains the first keyword contains the second
KeywordContains == {<<"active project", "project">>}

RECURSIVE SubsetsUpTo(_, _)
\* the subsets of S with at most n elements
SubsetsUpTo(S, n) ==
  IF n = 0 THEN {{}}
  ELSE LET smaller == SubsetsUpTo(S, n - 1)
       IN  smaller \cup {p \cup {x} : p \in smaller, x \in S}

\* the keyword sets a query text can contain
QueryHits ==
  {hits \in SubsetsUpTo(Keywords, MaxHits) :
     \A p \in KeywordContains : p[1] \in hits => p[2] \in hits}

\* scores[category] = sum(1 for keyword in keywords if keyword in query_lower)
ContextScores(hits) == [c \in Categories |-> Cardinality(Patterns[c] \cap hits)]

RECURSIVE MaxOver(_, _)
\* max(values)
MaxOver(S, g) ==
  LET x == CHOOSE y \in S : TRUE
  IN  IF S = {x} THEN g[x] ELSE Max(g[x], MaxOver(S \ {x}, g))

\* (mutant) the last of the keys with the largest value
MaxKeyLast(scores) ==
  LET best == MaxOver(Categories, scores)
      i == CHOOSE j \in 1..Len(CategoryOrder) :
             /\ scores[CategoryOrder[j]] = best
             /\ \A l \in j + 1..Len(CategoryOrder) : scores[CategoryOrder[l]] < best
  IN  CategoryOrder[i]

\* max(scores, key=scores.get): the first key, in iteration order, that has
\* the largest value
MaxKey(scores) ==
  LET best == MaxOver(Categories, scores)
      i == CHOOSE j \in 1..Len(CategoryOrder) :
             /\ scores[CategoryOrder[j]] = best
             /\ \A l \in 1..j - 1 : scores[CategoryOrder[l]] < best
  IN  CategoryOrder[i]

\* (mutant) no default for a query without any keyword
PrimaryWithoutDefault(scores) == MaxKey(scores)

\* primary (317)
Primary(scores) ==
  IF MaxOver(Categories, scores) > 0 THEN MaxKey(scores) ELSE "specific"

\* get_context_strategy(query)
GetContextStrategy(hits) ==
  LET scores == ContextScores(hits)
  IN  [primary |-> Primary(scores),
       scores |-> scores,
       is_mixed |-> Cardinality({c \in Categories : scores[c] > 0}) > 1]

InitClassify ==
  /\ Quiet
  /\ \E hits \in QueryHits : calc = [fn |-> "strategy_args", query |-> hits]

\* the first call for the query
Classify ==
  /\ calc.fn = "strategy_args"
  /\ calc' = [fn |-> "strategy", query |-> calc.query,
              strategy |-> GetContextStrategy(calc.query)]
  /\ UNCHANGED <<disk, index, last, gone, run, req, watcher, vault>>

\* a later call for the same query
ClassifyAgain ==
  /\ calc.fn = "strategy"
  /\ calc' = [fn |-> "strategy_again", query |-> calc.query,
              strategy |-> calc.strategy,
              again |-> GetContextStrategy(calc.query)]
  /\ UNCHANGED <<disk, index, last, gone, run, req, watcher, vault>>

SpecClassify == InitClassify /\ [][Classify \/ ClassifyAgain]_vars

\* number of keywords of the category's list among the hits, counted from
\* the lists
HitCount(c, hits) == Cardinality({w \in hits : w \in Patterns[c]})

\* C13: the primary category has the largest keyword-hit count of the four
\* categories, and is 'specific' when no category has a hit
Thm_C13 ==
  calc.fn = "strategy" =>
     /\ \A c \in Categories :
          HitCount(calc.strategy.primary, calc.query) >= HitCount(c, calc.query)
     /\ (\A c \in Categories : HitCount(c, calc.query) = 0)
          => calc.strategy.primary = "specific"

Wit_C13 ==
  /\ calc.fn = "strategy"
  /\ calc.strategy.primary = "project"
  /\ HitCount("project", calc.query) = 2
  /\ HitCount("temporal", calc.query) = 1

\* C14: a second call for the same query returns the same primary category,
\* scores and is_mixed flag, and among the categories that share the largest
\* non-zero count the primary is the first in the order temporal,
\* structural, project, specific
Thm_C14 ==
  calc.fn = "strategy_again" =>
     /\ calc.again = calc.strategy
     /\ \A i, j \in 1..Len(CategoryOrder) :
          (/\ calc.again.primary = CategoryOrder[j]
           /\ HitCount(CategoryOrder[i], calc.query) > 0
           /\ HitCount(CategoryOrder[i], calc.query)
                >= HitCount(CategoryOrder[j], calc.query))
            => i >= j

Wit_C14 ==
  /\ calc.fn = "strategy_again"
  /\ HitCount("temporal", calc.query) = 0
  /\ HitCount("structural", calc.query) = 1
  /\ HitCount("project", calc.query) = 1
  /\ calc.again.primary = "structural"
  /\ calc.again.is_mixed

(***************************************************************************)
(* Document bodies and the chunker.  A text is a sequence of tokens: a     *)
(* newline, a run of blanks, or the printing part of a line (plain text, a *)
(* checklist item "- [ ] ...", a "## " header), each with its length in    *)
(* characters and the number of the body line it comes from.               *)
(***************************************************************************)
Tok(kind, len, at) == [kind |-> kind, len |-> len, at |-> at]

NL == Tok("nl", 1, 0)

RECURSIVE TextLen(_)
\* len(text)
TextLen(t) == IF t = <<>> THEN 0 ELSE Head(t).len + TextLen(Tail(t))

IsSpace(tok) == tok.kind \in {"nl", "ws"}

RECURSIVE LStrip(_)
LStrip(t) == IF t # <<>> /\ IsSpace(Head(t)) THEN LStrip(Tail(t)) ELSE t

RECURSIVE RStrip(_)
RStrip(t) ==
  IF t # <<>> /\ IsSpace(t[Len(t)]) THEN RStrip(SubSeq(t, 1, Len(t) - 1)) ELSE t

\* text.strip()
Strip(t) == RStrip(LStrip(t))

RECURSIVE Concat(_)
\* "".join(parts)
Concat(parts) == IF parts = <<>> THEN <<>> ELSE Head(parts) \o Concat(Tail(parts))

RECURSIVE SplitLines(_)
\* text.split('\n')
SplitLines(t) ==
  IF \E i \in 1..Len(t) : t[i].kind = "nl"
    THEN LET i == CHOOSE j \in 1..Len(t) :
                    t[j].kind = "nl" /\ \A l \in 1..j - 1 : t[l].kind # "nl"
         IN  <<SubSeq(t, 1, i - 1)>> \o SplitLines(SubSeq(t, i + 1, Len(t)))
    ELSE <<t>>

RECURSIVE JoinLines(_)
\* '\n'.join(lines)
JoinLines(lines) ==
  IF Len(lines) <= 1 THEN Concat(lines)
  ELSE Head(lines) \o <<NL>> \o JoinLines(Tail(lines))

\* line.strip().startswith('- [')
IsTaskLine(line) == LStrip(line) # <<>> /\ Head(LStrip(line)).kind = "task"

\* line.strip() == ''
IsBlankLine(line) == Strip(line) = <<>>

(***************************************************************************)
(* RecursiveCharacterTextSplitter(chunk_size=1000, chunk_overlap=200,      *)
(* separators=["\n## ", "\n### ", "\n\n", "\n", " ", ""],                  *)
(* keep_separator=True), as configured in ForgeRAG.__init__                *)
(***************************************************************************)
ChunkSize == 1000

ChunkOverlap == 200

\* the separators that contain a newline
Separators == <<"\n## ", "\n### ", "\n\n", "\n">>

\* the separator occurs in t at position i
SepAt(t, sep, i) ==
  /\ i <= Len(t) /\ t[i].kind = "nl"
  /\ CASE sep = "\n## " -> i < Len(t) /\ t[i + 1].kind = "h2"
       [] sep = "\n### " -> i < Len(t) /\ t[i + 1].kind = "h3"
       [] sep = "\n\n" -> i < Len(t) /\ t[i + 1].kind = "nl"
       [] sep = "\n" -> TRUE

\* tokens a match takes up before the search goes on
SepWidth(sep) == IF sep = "\n" THEN 1 ELSE 2

RECURSIVE Matches(_, _, _)
\* positions of the non-overlapping occurrences of sep, from position i on
Matches(t, sep, i) ==
  IF i > Len(t) THEN <<>>
  ELSE IF SepAt(t, sep, i) THEN <<i>> \o Matches(t, sep, i + SepWidth(sep))
  ELSE Matches(t, sep, i + 1)

\* _split_text_with_regex with keep_separator: each piece but the first
\* starts with its separator; empty pieces are dropped
SplitKeep(t, sep) ==
  LET m == Matches(t, sep, 1)
      from(j) == IF j = 0 THEN 1 ELSE m[j]
      upto(j) == IF j = Len(m) THEN Len(t) ELSE m[j + 1] - 1
      pieces == [j \in 1..Len(m) + 1 |-> SubSeq(t, from(j - 1), upto(j - 1))]
  IN  SelectSeq(pieces, LAMBDA p : p # <<>>)

\* _join_docs: the pieces joined and stripped; nothing when that is empty
JoinDocs(cur) == IF Strip(Concat(cur)) = <<>> THEN <<>> ELSE <<Strip(Concat(cur))>>

\* (mutant) nothing is dropped from the front
PopFrontNothing(cur, total, len) == [cur |-> cur, total |-> total]

RECURSIVE PopFront(_, _, _)
\* drop pieces from the front until the rest fits the overlap and the next
\* piece fits the chunk
PopFront(cur, total, len) ==
  IF total > ChunkOverlap \/ (total + len > ChunkSize /\ total > 0)
    THEN PopFront(Tail(cur), total - TextLen(Head(cur)), len)
    ELSE [cur |-> cur, total |-> total]

RECURSIVE Merge(_, _, _, _, _)
\* _merge_splits(splits, separator="")
Merge(splits, i, docs, cur, total) ==
  IF i > Len(splits) THEN docs \o JoinDocs(cur)
  ELSE LET len == TextLen(splits[i])
           full == total + len > ChunkSize /\ cur # <<>>
           kept == IF full THEN PopFront(cur, total, len)
                   ELSE [cur |-> cur, total |-> total]
       IN  Merge(splits, i + 1,
                 IF full THEN docs \o JoinDocs(cur) ELSE docs,
                 Append(kept.cur, splits[i]), kept.total + len)

MergeSplits(splits) == Merge(splits, 1, <<>>, <<>>, 0)

RECURSIVE SplitText(_, _)
RECURSIVE SplitPieces(_, _, _, _)
\* the loop of _split_text over the pieces: pieces shorter than the chunk
\* size are collected and merged, a longer one is split with the remaining
\* separators
SplitPieces(pieces, i, good, new_separators) ==
  IF i > Len(pieces) THEN MergeSplits(good)
  ELSE IF TextLen(pieces[i]) < ChunkSize
    THEN SplitPieces(pieces, i + 1, Append(good, pieces[i]), new_separators)
  ELSE MergeSplits(good) \o SplitText(pieces[i], new_separators)
       \o SplitPieces(pieces, i + 1, <<>>, new_separators)

\* _split_text(text, separators): split on the first separator that occurs
\* in the text.  A text without any newline is split into words, or
\* characters, and merged again without separator: as the lines of the model
\* are shorter than the chunk size, that gives back the one stripped text.
SplitText(t, separators) ==
  IF separators = <<>> THEN JoinDocs(<<t>>)
  ELSE IF Matches(t, Head(separators), 1) = <<>> THEN SplitText(t, Tail(separators))
  ELSE SplitPieces(SplitKeep(t, Head(separators)), 1, <<>>, Tail(separators))

(***************************************************************************)
(* _smart_chunk_document and _split_preserving_tasks                       *)
(***************************************************************************)
\* a project folder whose name is not spelled "Projects"
LowerPrjFile == "/vault/projects/plan.md"

\* '/Projects/' in source_path
InProjectsFolder(f) == "/Projects/" \in PathMarks(f)

\* lines j..n of the task list that starts at line i: checklist lines and
\* blank lines
RECURSIVE TaskBlockEnd(_, _)
TaskBlockEnd(lines, j) ==
  IF j <= Len(lines) /\ (IsTaskLine(lines[j]) \/ IsBlankLine(lines[j]))
    THEN TaskBlockEnd(lines, j + 1)
    ELSE j

RECURSIVE BlockLengthNoNewline(_)
\* (mutant) the newlines of the block are not counted
BlockLengthNoNewline(block) ==
  IF block = <<>> THEN 0 ELSE TextLen(Head(block)) + BlockLengthNoNewline(Tail(block))

\* sum(len(line) + 1 for line in block)
RECURSIVE BlockLength(_)
BlockLength(block) ==
  IF block = <<>> THEN 0 ELSE TextLen(Head(block)) + 1 + BlockLength(Tail(block))

RECURSIVE PreserveLoop(_, _, _, _, _)
\* the while loop of _split_preserving_tasks (135-181) and the final chunk
PreserveLoop(lines, i, chunks, current_chunk, current_length) ==
  IF i > Len(lines)
    THEN (IF current_chunk # <<>> THEN Append(chunks, JoinLines(current_chunk))
          ELSE chunks)
  ELSE LET line == lines[i]
           line_length == TextLen(line) + 1
           j == TaskBlockEnd(lines, i + 1)
           task_block == SubSeq(lines, i, j - 1)
           task_length == BlockLength(task_block)
       IN  IF IsTaskLine(line) /\ current_length + task_length <= 1000
             THEN PreserveLoop(lines, j, chunks, current_chunk \o task_block,
                               current_length + task_length)
           ELSE IF IsTaskLine(line) /\ current_chunk # <<>>
             THEN PreserveLoop(lines, j, Append(chunks, JoinLines(current_chunk)),
                               task_block, task_length)
           ELSE IF current_length + line_length > 1000 /\ current_chunk # <<>>
             THEN PreserveLoop(lines, i + 1, Append(chunks, JoinLines(current_chunk)),
                               <<line>>, line_length)
           ELSE PreserveLoop(lines, i + 1, chunks, Append(current_chunk, line),
                             current_length + line_length)

SplitPreservingTasks(content) ==
  LET chunks == PreserveLoop(SplitLines(content), 1, <<>>, <<>>, 0)
  IN  IF chunks # <<>> THEN chunks ELSE <<content>>

\* sections = content.split('\n## '), with '## ' put back in front of every
\* section but the first: the header token stays, the newline goes
SplitSections(content) ==
  LET m == Matches(content, "\n## ", 1)
      from(j) == IF j = 0 THEN 1 ELSE m[j] + 1
      upto(j) == IF j = Len(m) THEN Len(content) ELSE m[j + 1] - 1
  IN  [j \in 1..Len(m) + 1 |-> SubSeq(content, from(j - 1), upto(j - 1))]

RECURSIVE ChunkSections(_)
ChunkSections(sections) ==
  IF sections = <<>> THEN <<>>
  ELSE (IF TextLen(Head(sections)) <= 1200 THEN <<Head(sections)>>
        ELSE SplitPreservingTasks(Head(sections)))
       \o ChunkSections(Tail(sections))

\* "if '/Projects/' in source_path and content:" (101)
ProjectHandling(f, content) == InProjectsFolder(f) /\ content # <<>>

\* _smart_chunk_document(document): the page_content of the chunks
SmartChunk(f, content) ==
  IF ProjectHandling(f, content)
    THEN ChunkSections(SplitSections(content))
    ELSE SplitText(content, Separators)

(***************************************************************************)
(* The chunker on its own: one document, given by its path and the lines   *)
(* of its body                                                             *)
(***************************************************************************)
\* most lines of a body
MaxLines == 4

\* the lines a body is made of, as (kind, length) of their tokens: a blank
\* line, a short and a long line of text, a checklist item, a "## " header,
\* an indented line of text, an indented checklist item
LineForms ==
  {<<>>, <<<<"text", 150>>>>, <<<<"text", 700>>>>, <<<<"task", 300>>>>,
   <<<<"h2", 20>>>>, <<<<"ws", 4>>, <<"text", 150>>>>, <<<<"ws", 4>>, <<"task", 300>>>>}

Bodies == UNION {[1..n -> LineForms] : n \in 1..MaxLines}

ChunkedFiles == {InvFile, PrjFile, LowerPrjFile}

\* the lines of the body as texts, every token marked with its line number
BodyLines(forms) ==
  [i \in 1..Len(forms) |->
     [j \in 1..Len(forms[i]) |-> Tok(forms[i][j][1], forms[i][j][2], i)]]

InitChunk ==
  /\ Quiet
  /\ \E f \in ChunkedFiles, forms \in Bodies :
       calc = [fn |-> "chunk_args", source |-> f, lines |-> BodyLines(forms)]

\* _smart_chunk_document on the document
ChunkDocument ==
  /\ calc.fn = "chunk_args"
  /\ calc' = [fn |-> "chunks", source |-> calc.source, lines |-> calc.lines,
              special |-> ProjectHandling(calc.source, JoinLines(calc.lines)),
              chunks |-> SmartChunk(calc.source, JoinLines(calc.lines))]
  /\ UNCHANGED <<disk, index, last, gone, run, req, watcher, vault>>

SpecChunk == InitChunk /\ [][ChunkDocument]_vars

\* the checklists of a body: first and last line of every longest stretch of
\* checklist lines with nothing but blank lines between them
TaskRuns(lines) ==
  LET n == Len(lines)
      joined(i, j) == \A l \in i + 1..j - 1 : IsBlankLine(lines[l])
  IN  {r \in (1..n) \X (1..n) :
         /\ r[1] <= r[2]
         /\ IsTaskLine(lines[r[1]]) /\ IsTaskLine(lines[r[2]])
         /\ \A l \in r[1]..r[2] : IsTaskLine(lines[l]) \/ IsBlankLine(lines[l])
         /\ ~\E i \in 1..r[1] - 1 : IsTaskLine(lines[i]) /\ joined(i, r[1])
         /\ ~\E i \in r[2] + 1..n : IsTaskLine(lines[i]) /\ joined(r[2], i)}

\* the checklist item of line i is in the chunk
HoldsItem(chunk, i) ==
  \E p \in 1..Len(chunk) : chunk[p].kind = "task" /\ chunk[p].at = i

\* C15 (as claimed): in a document that _detect_folder_type puts in a
\* project folder, every checklist shorter than the chunk size has all its
\* items in one chunk
Claim_C15 ==
  (calc.fn = "chunks" /\ DetectFolderType(calc.source) = "projects") =>
     \A r \in TaskRuns(calc.lines) :
        TextLen(JoinLines(SubSeq(calc.lines, r[1], r[2]))) < ChunkSize =>
           \E c \in 1..Len(calc.chunks) :
              \A i \in r[1]..r[2] :
                 IsTaskLine(calc.lines[i]) => HoldsItem(calc.chunks[c], i)

\* the category the selection of the sorted documents counts a path in
\* (662-663, 669-670, 677-678)
MixCategories(f) ==
  (IF PathMarks(f) \cap {"/Inventory/", "/Hardware/"} # {} THEN {"inventory"} ELSE {})
  \cup (IF "/Logs/" \in PathMarks(f) THEN {"logs"} ELSE {})
  \cup (IF "/Projects/" \in PathMarks(f) THEN {"projects"} ELSE {})

\* C22 (as claimed): the chunker handles a document as a project document
\* exactly when _detect_folder_type calls its path 'projects', and the
\* category selection counts the path as inventory, logs or projects exactly
\* when _detect_folder_type gives it that type
Claim_C22 ==
  calc.fn = "chunks" =>
    /\ calc.special <=> DetectFolderType(calc.source) = "projects"
    /\ \A type \in {"inventory", "logs", "projects"} :
         type \in MixCategories(calc.source) <=> DetectFolderType(calc.source) = type

(***************************************************************************)
(* _split_preserving_tasks on its own: one text, given by its lines        *)
(***************************************************************************)
\* the lines of such a text: a blank line, short and long lines of text, a
\* line longer than a chunk, checklist items, an indented checklist item
PreserveForms ==
  {<<>>, <<<<"text", 150>>>>, <<<<"text", 500>>>>, <<<<"text", 1100>>>>,
   <<<<"task", 499>>>>, <<<<"task", 600>>>>, <<<<"ws", 4>>, <<"task", 300>>>>}

InitPreserve ==
  /\ Quiet
  /\ \E forms \in UNION {[1..n -> PreserveForms] : n \in 1..MaxLines} :
       calc = [fn |-> "preserve_args", lines |-> BodyLines(forms)]

\* _split_preserving_tasks(content, metadata): the page_content of the chunks
SplitContent ==
  /\ calc.fn = "preserve_args"
  /\ calc' = [fn |-> "preserved", lines |-> calc.lines,
              chunks |-> SplitPreservingTasks(JoinLines(calc.lines))]
  /\ UNCHANGED <<disk, index, last, gone, run, req, watcher, vault>>

SpecPreserve == InitPreserve /\ [][SplitContent]_vars

\* the lines are one checklist run: a checklist line followed by checklist
\* and blank lines only
IsChecklistRun(lines) ==
  /\ IsTaskLine(lines[1])
  /\ \A l \in 1..Len(lines) : IsTaskLine(lines[l]) \/ IsBlankLine(lines[l])

\* sum over the lines of the chunk of len(line) + 1: the chunk is the lines
\* joined by one newline each
AccountedLength(chunk) == TextLen(chunk) + 1

\* C30: _split_preserving_tasks returns at least one chunk, and a chunk
\* whose accounted length exceeds 1000 is one line or one checklist run, so
\* every chunk made of several lines that are not one checklist run has
\* accounted length at most 1000
Thm_C30 ==
  calc.fn = "preserved" =>
    /\ Len(calc.chunks) >= 1
    /\ \A c \in 1..Len(calc.chunks) :
         AccountedLength(calc.chunks[c]) > 1000 =>
            \/ Len(SplitLines(calc.chunks[c])) = 1
            \/ IsChecklistRun(SplitLines(calc.chunks[c]))

\* a text split into a chunk of several units and an oversized checklist run
\* of more than one line
Wit_C30 ==
  /\ calc.fn = "preserved"
  /\ \E c, d \in 1..Len(calc.chunks) :
       /\ AccountedLength(calc.chunks[c]) > 1000
       /\ Len(SplitLines(calc.chunks[c])) > 1
       /\ Len(SplitLines(calc.chunks[d])) > 1
       /\ ~IsChecklistRun(SplitLines(calc.chunks[d]))

\* the printing tokens of a text, in order
Printing(t) == SelectSeq(t, LAMBDA tok : ~IsSpace(tok))

\* number of leading items of next that repeat the end of prev
OverlapOf(prev, next) ==
  LET fits(k) == SubSeq(next, 1, k) = SubSeq(prev, Len(prev) - k + 1, Len(prev))
  IN  CHOOSE k \in 0..Min(Len(prev), Len(next)) :
        fits(k) /\ \A l \in k + 1..Min(Len(prev), Len(next)) : ~fits(l)

RECURSIVE Reassemble(_, _)
\* the parts from the c-th on, read in order, without what each repeats of
\* the one before it
Reassemble(parts, c) ==
  IF c > Len(parts) THEN <<>>
  ELSE (IF c = 1 THEN parts[1]
        ELSE SubSeq(parts[c], OverlapOf(parts[c - 1], parts[c]) + 1, Len(parts[c])))
       \o Reassemble(parts, c + 1)

\* what part c repeats of part c - 1
Repeated(parts, c) == SubSeq(parts[c], 1, OverlapOf(parts[c - 1], parts[c]))

YamlValue(py, text) == [py |-> py, text |-> text]

YamlValues ==
  {YamlValue("str", "project"), YamlValue("int", "2024"), YamlValue("bool", "True"),
   YamlValue("NoneType", "None"), YamlValue("list", "['ai', 'tools']"),
   YamlValue("dict", "{'host': 'nas'}"), YamlValue("date", "2024-05-01")}

\* the front-matter keys the ranker reads
MetaKeys == {"type", "tags", "status"}

\* key-value front-matter: every mapping from some of the keys to values
Mappings == UNION {[keys -> YamlValues] : keys \in SUBSET MetaKeys}

NoData == [k \in {} |-> 0]

\* a file text: whether the pattern (38) finds a fenced block at its start,
\* and what yaml.safe_load does with what is between the fences: it raises
\* YAMLError ("invalid"), or returns a string ("scalar"), a list, None
\* ("empty": nothing there), the number 0 ("zero"), or a mapping
FileText(kind, data) == [kind |-> kind, data |-> data]

NoFrontmatter == FileText("no front-matter", NoData)

Interiors ==
  {FileText(kind, NoData) : kind \in {"invalid", "scalar", "list", "empty", "zero"}}
  \cup {FileText("mapping", data) : data \in Mappings}

FileTexts == {NoFrontmatter} \cup Interiors

\* the parts of the file text: the fenced block, the rest
WholeText(file) ==
  IF file = NoFrontmatter THEN <<"rest">> ELSE <<"fenced block", "rest">>

\* the metadata conversion (59-65)
ConvertValue(value) ==
  IF value.py \in {"list", "dict"} THEN YamlValue("str", value.text)
  ELSE IF value.py = "date" THEN YamlValue("str", value.text)
  ELSE value

\* what load() hands back: a list of documents, or an exception
Loaded(page_content, metadata) ==
  [raised |-> FALSE,
   docs |-> <<[page_content |-> page_content, metadata |-> metadata]>>]

LoadRaises == [raised |-> TRUE, docs |-> <<>>]

\* frontmatter_data = yaml.safe_load(yaml_content) or {}
IsFalsy(file) ==
  file.kind \in {"empty", "zero"} \/ (file.kind = "mapping" /\ DOMAIN file.data = {})

\* YAMLFrontmatterLoader(file_path).load()
Load(f, file) ==
  LET source == [k \in {"source"} |-> YamlValue("str", f)]
      withKeys(data) ==
        [k \in {"source"} \cup DOMAIN data |->
           IF k = "source" THEN source[k] ELSE ConvertValue(data[k])]
  IN  IF file = NoFrontmatter THEN Loaded(WholeText(file), source)
      ELSE IF file.kind = "invalid" THEN Loaded(WholeText(file), source)
      ELSE IF IsFalsy(file) THEN Loaded(<<"rest">>, source)
      ELSE IF file.kind \in {"scalar", "list"} THEN LoadRaises
      ELSE Loaded(<<"rest">>, withKeys(file.data))

InitLoader ==
  /\ Quiet
  /\ \E f \in Files, file \in FileTexts :
       calc = [fn |-> "load_args", source |-> f, file |-> file]

LoadFile ==
  /\ calc.fn = "load_args"
  /\ calc' = [fn |-> "loaded", source |-> calc.source, file |-> calc.file,
              result |-> Load(calc.source, calc.file)]
  /\ UNCHANGED <<disk, index, last, gone, run, req, watcher, vault>>

SpecLoader == InitLoader /\ [][LoadFile]_vars

\* C17 (as claimed): for a file with a fenced block, load returns one
\* document whatever is between the fences; when that is invalid YAML, a
\* bare scalar or a list, the body is the whole file text and the metadata
\* holds the source path only
Claim_C17 ==
  (calc.fn = "loaded" /\ calc.file \in Interiors) =>
     /\ ~calc.result.raised
     /\ Len(calc.result.docs) = 1
     /\ calc.file.kind \in {"invalid", "scalar", "list"} =>
          /\ calc.result.docs[1].page_content = WholeText(calc.file)
          /\ DOMAIN calc.result.docs[1].metadata = {"source"}

\* C19 (as claimed): every value in the metadata of a loaded document is a
\* string
Claim_C19 ==
  (calc.fn = "loaded" /\ ~calc.result.raised) =>
     \A k \in DOMAIN calc.result.docs[1].metadata :
        calc.result.docs[1].metadata[k].py = "str"

(***************************************************************************)
(* Which files a reindex reads: the names under the root, the watcher's    *)
(* filter (main.py, VaultWatcher.on_any_event) and the glob of             *)
(* load_and_index_directory                                                *)
(***************************************************************************)
TildeFile == "/vault/Inventory/~nas.md"

HiddenFile == "/vault/Inventory/.nas.md"

TmpFile == "/vault/Inventory/nas.md.tmp"

HiddenDirFile == "/vault/.obsidian/plugins.md"

\* the names that can exist under the root
DirEntries == Files \cup {TildeFile, HiddenFile, TmpFile, HiddenDirFile}

\* path.endswith('.md')
EndsWithMd(f) == f # TmpFile

\* os.path.basename(path) starts with '.' or '~' or ends with '.tmp'
IsHiddenOrTemporary(f) == f \in {TildeFile, HiddenFile, TmpFile}

\* the event types watchdog reports
EventTypes == {"created", "modified", "moved", "deleted", "opened", "closed"}

\* on_any_event puts the path into the update queue (77-95)
WatcherQueues(f, event_type) ==
  /\ EndsWithMd(f)
  /\ ~IsHiddenOrTemporary(f)
  /\ event_type \in {"created", "modified", "moved", "deleted"}

\* glob(os.path.join(directory_path, "**/*.md"), recursive=True): neither
\* "*" nor "**" matches a name that starts with a dot
GlobMd(present) ==
  {f \in present : EndsWithMd(f) /\ f \notin {HiddenFile, HiddenDirFile}}

InitWatch ==
  /\ Quiet
  /\ \E present \in SUBSET DirEntries, f \in DirEntries, event_type \in EventTypes :
       calc = [fn |-> "event", present |-> present, path |-> f,
               event_type |-> event_type]

\* the watcher sees the event; a path it skips starts no update
OnAnyEvent ==
  /\ calc.fn = "event"
  /\ calc' = [fn |-> IF WatcherQueues(calc.path, calc.event_type)
                       THEN "queued" ELSE "skipped",
              present |-> calc.present, path |-> calc.path]
  /\ UNCHANGED <<disk, index, last, gone, run, req, watcher, vault>>

\* the update started by the event: the files it globs and loads are the
\* sources of the documents it chunks and stores (240-276)
UpdateGlob ==
  /\ calc.fn = "queued"
  /\ calc' = [fn |-> "indexed", present |-> calc.present, path |-> calc.path,
              sources |-> GlobMd(calc.present)]
  /\ UNCHANGED <<disk, index, last, gone, run, req, watcher, vault>>

SpecWatch == InitWatch /\ [][OnAnyEvent \/ UpdateGlob]_vars

\* C18 (as claimed): after a reindex the stored chunks come from exactly the
\* markdown files under the root whose name neither starts with '.' or '~'
\* nor ends with '.tmp'
Claim_C18 ==
  calc.fn = "indexed" =>
     calc.sources = {f \in calc.present : EndsWithMd(f) /\ ~IsHiddenOrTemporary(f)
                                           /\ f # HiddenDirFile}

(***************************************************************************)
(* VaultWatcher's debounce: the part of on_any_event that runs under the   *)
(* lock, and the threads that run _delayed_update.  Time is counted in     *)
(* ticks since the last accepted event; the update reads the disk when it  *)
(* starts and the thread stays alive until it has finished.                *)
(***************************************************************************)
\* update_delay, in ticks
UpdateDelay == 2

\* thread.is_alive(): started and not yet finished
IsAlive(w, t) == w.threads[t] # "free"

\* (mutant) a thread is started for every event
ThreadNeededAlways(w) == TRUE

\* "self.update_thread is None or not self.update_thread.is_alive()" (97)
ThreadNeeded(w) == w.update_thread = 0 \/ ~IsAlive(w, w.update_thread)

\* threading.Thread(target=self._delayed_update).start() (98-100)
StartThread(w) ==
  LET t == CHOOSE n \in 1..MaxThreads :
             ~IsAlive(w, n) /\ \A m \in 1..n - 1 : IsAlive(w, m)
  IN  [w EXCEPT !.update_thread = t, !.threads[t] = "check"]

\* a markdown file of the vault is written or deleted and the observer
\* delivers the event: on_any_event past its filters (92-100)
FileEvent(f, d) ==
  LET queued == [watcher EXCEPT !.update_queue = @ \cup {f}, !.elapsed = 0,
                                !.unserved = TRUE, !.events = @ + 1]
  IN  /\ watcher.events < MaxEvents
      /\ disk[f] # d
      /\ disk' = [disk EXCEPT ![f] = d]
      /\ gone' = IF d = Absent THEN gone ELSE gone \ {f}
      /\ last' = [NoLast EXCEPT !.op = "edit"]
      /\ ThreadNeeded(watcher) => \E t \in 1..MaxThreads : ~IsAlive(watcher, t)
      /\ watcher' = IF ThreadNeeded(watcher) THEN StartThread(queued) ELSE queued
      /\ UNCHANGED <<index, run, calc, req, vault>>

\* time passes without an event
Tick ==
  /\ watcher.elapsed < UpdateDelay
  /\ watcher' = [watcher EXCEPT !.elapsed = @ + 1]
  /\ UNCHANGED <<disk, index, last, gone, run, calc, req, vault>>

\* one turn of the loop of _delayed_update, under the lock (104-115)
ThreadCheck(t) ==
  /\ watcher.threads[t] = "check"
  /\ watcher' =
       IF watcher.elapsed >= UpdateDelay
         THEN IF watcher.update_queue # {}
                THEN [watcher EXCEPT !.update_queue = {}, !.threads[t] = "update"]
                ELSE [watcher EXCEPT !.threads[t] = "free"]
         ELSE [watcher EXCEPT !.threads[t] = "sleep"]
  /\ UNCHANGED <<disk, index, last, gone, run, calc, req, vault>>

\* time.sleep(0.5) (118)
ThreadSleep(t) ==
  /\ watcher.threads[t] = "sleep"
  /\ watcher' = [watcher EXCEPT !.threads[t] = "check"]
  /\ UNCHANGED <<disk, index, last, gone, run, calc, req, vault>>

\* _update_search_index: update_directory_incremental starts and reads the
\* vault (123-135)
UpdateSearchIndex(t) ==
  LET r == LoadAndIndexDirectory(index, disk, TRUE, NoFault)
  IN  /\ watcher.threads[t] = "update"
      /\ Count(r.index) <= MaxIndex
      /\ index' = r.index
      /\ last' = [NoLast EXCEPT !.op = "inc", !.ret = r.ret, !.added = r.added]
      /\ gone' = {f \in Files : disk[f] = Absent /\ (f \in gone \/ CountOf(index, f) > 0)}
      /\ watcher' = [watcher EXCEPT !.threads[t] = "updating", !.unserved = FALSE]
      /\ UNCHANGED <<disk, run, calc, req, vault>>

\* the update has finished; _delayed_update returns and the thread ends
ThreadExit(t) ==
  /\ watcher.threads[t] = "updating"
  /\ watcher' = [watcher EXCEPT !.threads[t] = "free"]
  /\ UNCHANGED <<disk, index, last, gone, run, calc, req, vault>>

NextThread ==
  \/ \E f \in Edited, d \in {"plain", Absent} : FileEvent(f, d)
  \/ Tick
  \/ \E t \in 1..MaxThreads : ThreadCheck(t)
  \/ \E t \in 1..MaxThreads : ThreadSleep(t)
  \/ \E t \in 1..MaxThreads : UpdateSearchIndex(t)
  \/ \E t \in 1..MaxThreads : ThreadExit(t)

SpecThread == Init /\ [][NextThread]_vars

\* the clock runs and every started thread keeps running; no event has to
\* arrive
FairThread ==
  /\ SpecThread
  /\ WF_vars(Tick)
  /\ \A t \in 1..MaxThreads :
       /\ WF_vars(ThreadCheck(t)) /\ WF_vars(ThreadSleep(t))
       /\ WF_vars(UpdateSearchIndex(t)) /\ WF_vars(ThreadExit(t))

\* C23 (as claimed): after every event the watcher accepts, an incremental
\* update that starts after the event eventually runs, even if no further
\* event arrives
Claim_C23 == watcher.unserved ~> ~watcher.unserved

\* the update threads that are alive
AliveThreads == {t \in 1..MaxThreads : IsAlive(watcher, t)}

\* C27: the watcher never has more than one update thread alive, and the
\* thread it refers to is the one that is alive
Thm_C27 ==
  /\ Cardinality(AliveThreads) <= 1
  /\ AliveThreads \subseteq {watcher.update_thread}

\* an event has arrived while the update of an earlier one was running
Wit_C27 ==
  /\ watcher.update_queue # {}
  /\ \E t \in 1..MaxThreads : watcher.threads[t] = "updating"

(***************************************************************************)
(* The configured vault: /configure-vault, /update-index and the cache of  *)
(* get_vault_metadata, with the time since the cache was filled counted in *)
(* minutes                                                                 *)
(***************************************************************************)
\* timedelta(minutes=5)
CacheMinutes == 5

\* POST /configure-vault with another existing directory (main.py 1027-1047):
\* vault_path is set and saved, a new VaultWatcher is started
ConfigureVault(p) ==
  /\ p # vault.vault_path
  /\ vault' = [vault EXCEPT !.vault_path = p]
  /\ watcher' = NoWatcher
  /\ last' = [NoLast EXCEPT !.op = "configure"]
  /\ UNCHANGED <<disk, index, gone, run, calc, req>>

\* POST /update-index: rag.update_directory_incremental(str(vault_path))
\* (main.py 1072-1085)
UpdateIndexEndpoint ==
  LET r == UpdateDirectoryUnder(index, disk, vault.vault_path)
  IN  /\ Count(r.index) <= MaxIndex
      /\ index' = r.index
      /\ last' = [NoLast EXCEPT !.op = "inc", !.ret = r.ret]
      /\ gone' = {f \in Files : disk[f] = Absent /\ (f \in gone \/ CountOf(index, f) > 0)}
      /\ UNCHANGED <<disk, run, calc, req, watcher, vault>>

\* what get_vault_metadata computes for the directory: the markdown files
\* it counts, and (not part of the data) the directory they were counted in
Metadata(dsk, current_vault_path) ==
  [root |-> current_vault_path,
   md_files |-> {f \in Files : Under(f, current_vault_path) /\ dsk[f] # Absent}]

\* get_vault_metadata() (main.py 324-382); exists is os.path.exists of the
\* vault directory.  calc keeps the call: the vault_path it ran with, what
\* it returned, whether that was an error, whether it came from the cache
\* and how old the cache was
GetVaultMetadata(exists) ==
  LET call == [fn |-> "get_vault_metadata", vault_path |-> vault.vault_path,
               returned |-> NoMetadata, error |-> FALSE, hit |-> FALSE,
               age |-> vault.age]
      data == Metadata(disk, vault.vault_path)
  IN  /\ IF vault.cached /\ vault.age < CacheMinutes
           THEN /\ calc' = [call EXCEPT !.returned = vault.data, !.hit = TRUE]
                /\ UNCHANGED vault
         ELSE IF ~exists
           THEN /\ calc' = [call EXCEPT !.error = TRUE]
                /\ UNCHANGED vault
         ELSE /\ calc' = [call EXCEPT !.returned = data]
              /\ vault' = [vault EXCEPT !.data = data, !.cached = TRUE, !.age = 0]
      /\ UNCHANGED <<disk, index, last, gone, run, req, watcher>>

\* a minute passes
MinutePasses ==
  /\ vault.cached /\ vault.age < CacheMinutes
  /\ vault' = [vault EXCEPT !.age = @ + 1]
  /\ UNCHANGED <<disk, index, last, gone, run, calc, req, watcher>>

NextVault ==
  \/ \E f \in Edited : WriteFile(f, "plain")
  \/ \E f \in Edited : DeleteFile(f)
  \/ \E p \in Roots : ConfigureVault(p)
  \/ UpdateIndexEndpoint
  \/ \E exists \in BOOLEAN : GetVaultMetadata(exists)
  \/ MinutePasses

SpecVault == Init /\ [][NextVault]_vars

\* C26 (as claimed): when an incremental reindex of the configured vault has
\* completed, every chunk in the index comes from a file below that vault
Claim_C26 ==
  last.op = "inc" =>
     \A c \in ChunkUniverse : index[c] > 0 => Under(c.source, vault.vault_path)

\* C29 (as claimed): get_vault_metadata returns cached data only when it is
\* less than five minutes old and was computed for the vault_path of the
\* call, so never the counts of the vault configured before; and what is
\* cached is never an error result
Claim_C29 ==
  /\ calc.fn = "get_vault_metadata" =>
       /\ calc.hit => calc.age < CacheMinutes
       /\ ~calc.error => calc.returned.root = calc.vault_path
  /\ vault.cached => vault.data # NoMetadata

(***************************************************************************)
(* Properties of the indexer                                               *)
(***************************************************************************)
IsReindex == last.op \in {"full", "inc"}

\* the files on disk that can be read and parsed
Loadable == {f \in Files : disk[f] \in DocNames}

\* chunks the chunker makes of the files that load
ChunkTotal(dsk, files) ==
  SumOver(files, [f \in files |-> Len(DocTexts(dsk[f]))])

AllStored(idx, dsk, files) ==
  \A f \in files : \A i \in 1..Len(DocTexts(dsk[f])) : idx[Chunk(f, dsk[f], i)] >= 1

\* C1: an incremental reindex that directly follows an incremental
\* reindex, with no file change in between and the store and the embedding
\* service answering both, returns the count the first one returned and
\* leaves as many chunks in the store as the first one left, every chunk of
\* every loaded file exactly once
Thm_C1 ==
  (last.op = "inc" /\ last.rep /\ last.fault = NoFault) =>
     /\ last.ret = last.prevRet
     /\ Count(index) = last.prevSize
     /\ \A c \in ChunkUniverse : c.source \in Loadable => index[c] <= 1

Wit_C1 ==
  /\ last.op = "inc" /\ last.rep /\ last.fault = NoFault
  /\ last.ret >= 2 /\ Count(index) = last.ret

\* C2: a file with chunks in the store that an incremental reindex (whose
\* cleaning step reached the store) found deleted has no chunk in the store
\* as long as it stays deleted, and no search returns a result from it; the
\* other files of the vault need not exist
Thm_C2 ==
  \A f \in gone :
     /\ disk[f] = Absent
     /\ CountOf(index, f) = 0
     /\ last.op = "search" =>
          \A i \in 1..Len(last.results) : last.results[i].chunk.source # f

Wit_C2 ==
  /\ gone # {}
  /\ \A f \in Files : disk[f] = Absent
  /\ last.op = "inc" /\ last.ret = 0

Wit_C2_Search == gone # {} /\ last.op = "search" /\ last.results # <<>>

\* C3 (as claimed): after an incremental reindex with the services
\* answering, the store holds the (source, content) entries a full reindex
\* of the same disk would leave
Claim_C3 ==
  (last.op = "inc" /\ last.fault = NoFault) =>
     ContentKeys(index) =
       ContentKeys(LoadAndIndexDirectory(index, disk, FALSE, NoFault).index)

\* C4 (as claimed): after a full reindex that reached and completed its
\* insert, whatever the clearing step did, the store holds exactly the
\* chunks of the files now under the root and nothing stored before
Claim_C4 ==
  (last.op = "full" /\ last.fault.kind \notin {"reinit", "write", "embed"}) =>
     index = AddDocuments(EmptyIndex, ChunkAll(disk, Loadable, 1))

\* C6: a reindex returns the number of chunks it inserted; files that fail
\* to load do not stop it: when its insert goes through, the chunks of every
\* file that loads are in the store and the count is their number
Thm_C6 ==
  IsReindex =>
     /\ last.ret = last.added
     /\ last.fault.kind \notin {"reinit", "write", "embed"} =>
          /\ AllStored(index, disk, Loadable)
          /\ last.ret = ChunkTotal(disk, Loadable)

Wit_C6 ==
  /\ IsReindex /\ last.fault = NoFault
  /\ \E f \in Files : disk[f] = Unreadable
  /\ Loadable # {} /\ last.ret > 0

\* C7 (as claimed): when the embedding call fails on the chunks of one
\* file, the chunks of every other loaded file are stored and counted
Claim_C7 ==
  (IsReindex /\ last.fault.kind = "embed") =>
     /\ AllStored(index, disk, Loadable \ {last.fault.file})
     /\ last.ret = ChunkTotal(disk, Loadable \ {last.fault.file})

\* what a reindex that succeeds and writes nothing returns
ZeroChunksWritten ==
  LoadAndIndexDirectory(EmptyIndex, [f \in Files |-> Absent], TRUE, NoFault).ret

\* what a search that succeeds and finds nothing returns
NoResultsFound ==
  Search(EmptyIndex, [f \in Files |-> Absent], <<>>, 1, TRUE, TRUE, <<>>, <<>>, NoFault).results

\* C8 (as claimed): a reindex or a search in which the vector store failed
\* returns a value different from the one a success with nothing written,
\* or nothing found, returns
Claim_C8 ==
  /\ (IsReindex /\ last.fault.kind \in {"clear", "reinit", "clean", "remove", "write"})
       => last.ret # ZeroChunksWritten
  /\ (last.op = "search" /\ "query" \in last.raised)
       => last.results # NoResultsFound

\* C24 (as claimed): an incremental run that ends in the error path of
\* load_and_index_directory because the embedding or the insert raised
\* leaves in the store every chunk it held for a file that is still on disk
Claim_C24 ==
  [][(/\ last'.op = "inc" /\ last'.fault.kind \in {"write", "embed"}
      /\ last'.ret = 0)
       => \A c \in ChunkUniverse : disk'[c.source] # Absent => index'[c] >= index[c]]_vars

(***************************************************************************)
(* Properties of search                                                    *)
(***************************************************************************)
\* C9 (as claimed): whenever the retrieval or the scoring of a candidate
\* raised, search returned the empty list and nothing escaped
Claim_C9 ==
  (last.op = "search" /\ last.raised # {}) =>
     (last.results = <<>> /\ ~last.escaped)

\* C9 (amended): no exception escapes search; when the retrieval raised, or
\* the scoring of a candidate raised outside the recency block, search
\* returned the empty list
Thm_C9 ==
  last.op = "search" =>
     /\ ~last.escaped
     /\ last.raised \cap {"query", "score"} # {} => last.results = <<>>

Wit_C9 ==
  /\ last.op = "search" /\ last.hybrid /\ last.k >= 1
  /\ "score" \in last.raised
  /\ \E e \in last.cands : ~TypeRaises(e.chunk)
  /\ last.results = <<>>

\* C10: search returns at most k results, each of them one of the
\* candidates retrieved from the store, none of them twice
Thm_C10 ==
  last.op = "search" =>
     /\ Len(last.results) <= last.k
     /\ \A i \in 1..Len(last.results) : last.results[i] \in last.cands
     /\ \A i, j \in 1..Len(last.results) :
          last.results[i] = last.results[j] => i = j

Wit_C10 ==
  /\ last.op = "search" /\ last.hybrid /\ last.boost
  /\ last.k >= 2 /\ Len(last.results) = last.k
  /\ Cardinality(last.cands) > last.k
  /\ \E i, j \in 1..Len(last.results) :
       /\ last.results[i].chunk.source = InvFile
       /\ last.results[j].chunk.source = PrjFile

\* entries of a set or list whose source lies on an inventory or hardware
\* path
InventoryCount(S) ==
  Cardinality({e \in S : PathMarks(e.chunk.source) \cap {"/Inventory/", "/Hardware/"} # {}})

\* C11 (as claimed): a search with boost_inventory that raised nothing and
\* whose candidates hold at least k/2 (rounded down) inventory or hardware
\* chunks returns at least that many of them
Claim_C11 ==
  (/\ last.op = "search" /\ last.boost /\ last.raised = {}
   /\ InventoryCount(last.cands) >= last.k \div 2)
    => InventoryCount(Range(last.results)) >= last.k \div 2

\* entries of a set or list whose source path carries one of the markers
MarkCount(S, marks) == Cardinality({e \in S : PathMarks(e.chunk.source) \cap marks # {}})

\* C21 (as claimed): a search that raised nothing returns, for a temporal
\* query whose candidates hold at least k/2 (rounded down) chunks of a
\* /Logs/ path, at least that many of them, and for a project query whose
\* candidates hold at least int(0.7 k) chunks of a /Projects/ or /Logs/
\* path, at least that many of those, whatever boost_inventory is
Claim_C21 ==
  (last.op = "search" /\ last.raised = {}) =>
    /\ (IsTemporalQuery(last.q) /\ MarkCount(last.cands, {"/Logs/"}) >= last.k \div 2)
         => MarkCount(Range(last.results), {"/Logs/"}) >= last.k \div 2
    /\ (/\ IsProjectQuery(last.q) /\ ~IsTemporalQuery(last.q)
        /\ MarkCount(last.cands, {"/Projects/", "/Logs/"}) >= (7 * last.k) \div 10)
         => MarkCount(Range(last.results), {"/Projects/", "/Logs/"}) >= (7 * last.k) \div 10

\* C25 (as claimed): a hybrid search with k >= 1 that raised nothing and
\* got at least k candidates from the vector index returns exactly k
\* results
Claim_C25 ==
  (/\ last.op = "search" /\ last.hybrid /\ last.raised = {}
   /\ last.k >= 1 /\ Cardinality(last.cands) >= last.k)
    => Len(last.results) = last.k

\* C28 (as claimed): in search(hybrid=False) the extra project boost goes
\* only to results whose own source path contains "/Projects/"
Claim_C28 ==
  (last.op = "search" /\ ~last.hybrid) =>
     \A e \in last.extra : "/Projects/" \in PathMarks(e.chunk.source)

TypeOK ==
  /\ disk \in [Files -> DiskStates]
  /\ index \in [ChunkUniverse -> 0..MaxIndex]
  /\ gone \subseteq Files
  /\ run.pc \in {"idle", "cleaned", "loaded", "removed"}
  /\ req.pc \in {"idle", "cleaned", "loaded", "removed"}
  /\ watcher.update_queue \subseteq Files
  /\ watcher.elapsed \in 0..UpdateDelay
  /\ watcher.update_thread \in 0..MaxThreads
  /\ watcher.threads \in [1..MaxThreads -> {"free", "check", "sleep", "update", "updating"}]
  /\ vault.vault_path \in Roots
  /\ vault.age \in 0..CacheMinutes

====
